---- MODULE Spec2Model ----
(***************************************************************************)
(* A model of SmoQS, the in-memory SNS/SQS mock: the registry (State) of   *)
(* queues, topics and in-flight messages, the handlers of sqs.rs and       *)
(* sns.rs that run against it under one lock, and the long-poll receive.   *)
(*                                                                         *)
(* Strings are sequences of tokens, separators included, so that           *)
(* get_queue_path really splits what get_queue_url really joined.          *)
(* Option<T> is a sequence of length 0 (None) or 1 (Some).                 *)
(* Identifiers drawn from the uuid generator are successive naturals.      *)
(* Every handler but receive_message holds the lock for all of its state   *)
(* access: it is one action.  receive_message takes the lock up to three   *)
(* times (check, re-check after the wake, record): one action per hold.    *)
(***************************************************************************)
EXTENDS Naturals, Integers, Sequences, FiniteSets, TLC

\* ------------------------------------------------------------------ bounds
NumReceivers == 2   \* the ReceiveMessage calls of one behaviour
MaxEvents == 4      \* the requests and the clock ticks of one behaviour

\* --------------------------------------------------------------- constants
FallbackVisibilityTimeout == 600   \* receive_message's fallback
MaxBatch == 10                     \* largest accepted MaxNumberOfMessages

\* ----------------------------------------------------------------- inputs
None == <<>>
Some(v) == <<v>>

QueueNames == {"q1", "q2"}
TopicNames == {"t1"}
\* the ReceiveMessage calls of a behaviour, numbered as they arrive
Receivers == 1..NumReceivers

endpoint_url == <<"http://localhost:3566">>
account_id == "000000000000"
region == "ap-southeast-2"

\* ------------------------------------------------------------ pure helpers
RECURSIVE rsplit_next(_, _)
\* str.rsplit(sep).next(): what follows the last sep, the whole string if none
rsplit_next(s, sep) ==
    IF s = <<>> THEN <<>>
    ELSE IF s[Len(s)] = sep THEN <<>>
    ELSE rsplit_next(SubSeq(s, 1, Len(s) - 1), sep) \o <<s[Len(s)]>>

starts_with_arn(s) == s # <<>> /\ s[1] = "arn"

get_queue_path(queue_url) ==
    IF starts_with_arn(queue_url) THEN rsplit_next(queue_url, ":")
    ELSE rsplit_next(queue_url, "/")

get_queue_url(queue_name) == endpoint_url \o <<"/", account_id, "/", queue_name>>

get_topic_arn(topic_name) ==
    <<"arn", ":", "aws", ":", "sns", ":", region, ":", account_id, ":", topic_name>>

\* a queue named as SNS clients name it: by ARN
queue_arn(queue_name) ==
    <<"arn", ":", "aws", ":", "sqs", ":", region, ":", account_id, ":", queue_name>>

\* str::parse::<unsigned>() on the numerals the inputs use
parse(s) ==
    CASE s = "0" -> Some(0)
      [] s = "1" -> Some(1)
      [] s = "2" -> Some(2)
      [] s = "10" -> Some(10)
      [] s = "11" -> Some(11)
      [] s = "30" -> Some(30)
      [] s = "600" -> Some(600)
      [] OTHER -> None

unwrap_or(o, d) == IF o = None THEN d ELSE o[1]

\* Option::map(parse).flatten()
parse_opt(o) == IF o = None THEN None ELSE parse(o[1])

\* -------------------------------------------------------------------- state
VARIABLES
    queues,             \* State.queues: QueuePath -> SQSQueue
    topics,             \* State.topics: TopicArn -> SNSTopic
    received_messages,  \* State.received_messages: ReceiveHandle -> ReceivedMessage
    now,                \* Utc::now(), in seconds
    next_id,            \* the next value of the uuid generator
    rcv,                \* the receive_message calls: locals and position of each
    resp,               \* the response of the last handler that returned
    next_cid,           \* history: the number of the next copy appended to a queue
    pop_log,            \* history: per queue path, the copies popped, in pop order
    deleted,            \* history: the handles DeleteMessage was called with
    events              \* history: the requests and clock ticks so far

vars == <<queues, topics, received_messages, now, next_id, rcv, resp,
          next_cid, pop_log, deleted, events>>

registry == <<queues, topics, received_messages>>

QueuePaths == {get_queue_path(get_queue_url(n)) : n \in QueueNames}

\* Message::new: two identifiers, the message id and a first receipt handle;
\* cid numbers the copy once it is appended to a queue (0: not appended)
Message_new(id) ==
    [id |-> id, receive_count |-> 0, receipt_handle |-> id + 1, cid |-> 0]

SQSQueue_new(name, attributes) ==
    [name |-> name, attributes |-> attributes, messages |-> <<>>, bell |-> None]

get_attribute(q, key, default) ==
    IF key \in DOMAIN q.attributes THEN q.attributes[key] ELSE default

set_attribute_default(q, key, default) ==
    IF key \in DOMAIN q.attributes THEN q
    ELSE [q EXCEPT !.attributes = [k \in DOMAIN @ \cup {key} |->
                                     IF k = key THEN default ELSE @[k]]]

has_message(q) == q.messages # <<>>

\* ------------------------------------------------- the oneshot channel (bell)
\* A channel is <<r, k>>: made by the k-th get_waiter of receive call r.  Call r
\* keeps the receiving end of <<r, 1>> while it is parked; the receiving end of
\* <<r, 2>>, and of <<r, 1>> when the call does not wait, is dropped at once.
rx_alive(rs, ch) ==
    ch[2] = 1 /\ rs[ch[1]].pc = "parked" /\ rs[ch[1]].rx_state = "open"

\* sender.send(true): the parked call's receiver resolves to Ok(true);
\* with the receiving end gone send fails and is only logged
sender_send(rs, ch) ==
    IF rx_alive(rs, ch) THEN [rs EXCEPT ![ch[1]].rx_state = "sent"] ELSE rs

\* a Sender dropped unsent: the parked call's receiver resolves to Err(RecvError)
sender_drop(rs, bell) ==
    IF bell # None /\ rx_alive(rs, bell[1])
    THEN [rs EXCEPT ![bell[1][1]].rx_state = "closed"] ELSE rs

\* history: the first copy appended to path while call r was parked on it and
\* its deadline had not come
note_sent(rs, path, cid) ==
    [r \in Receivers |->
        IF rs[r].pc = "parked" /\ get_queue_path(rs[r].queue_url) = path
           /\ rs[r].sent = None
           /\ now < rs[r].deadline
        THEN [rs[r] EXCEPT !.sent = Some(cid)]
        ELSE rs[r]]

\* history: the queue at path was removed while call r was in progress on it
note_deleted(rs, path) ==
    [r \in Receivers |->
        IF rs[r].pc \in {"parked", "record"} /\ get_queue_path(rs[r].queue_url) = path
        THEN [rs[r] EXCEPT !.deleted_since = TRUE]
        ELSE rs[r]]

\* history: call me took the lock on path while another call was parked on it
note_other(rs, me, path) ==
    [r \in Receivers |->
        IF r # me /\ rs[r].pc = "parked" /\ get_queue_path(rs[r].queue_url) = path
        THEN [rs[r] EXCEPT !.other_since = TRUE]
        ELSE rs[r]]

\* ----------------------------------------------------------- SQSQueue methods
\* SQSQueue::send_message that takes the bell and drops the Sender in place of
\* sending on it
SQSQueue_send_message_no_ring(w, path, message) ==
    LET q == w.queues[path]
        m == [message EXCEPT !.cid = w.next_cid]
    IN [queues |-> [w.queues EXCEPT ![path] =
                       [q EXCEPT !.messages = Append(@, m), !.bell = None]],
        rcv |-> note_sent(sender_drop(w.rcv, q.bell), path, w.next_cid),
        next_cid |-> w.next_cid + 1]

\* SQSQueue::send_message that sends on the bell without taking it out of the
\* slot
SQSQueue_send_message_keep_bell(w, path, message) ==
    LET q == w.queues[path]
        m == [message EXCEPT !.cid = w.next_cid]
    IN [queues |-> [w.queues EXCEPT ![path] = [q EXCEPT !.messages = Append(@, m)]],
        rcv |-> note_sent(IF q.bell # None THEN sender_send(w.rcv, q.bell[1])
                          ELSE w.rcv, path, w.next_cid),
        next_cid |-> w.next_cid + 1]

\* SQSQueue::send_message on the queue at path: [queues, rcv, next_cid] after it
SQSQueue_send_message(w, path, message) ==
    LET q == w.queues[path]
        m == [message EXCEPT !.cid = w.next_cid]
    IN [queues |-> [w.queues EXCEPT ![path] =
                       [q EXCEPT !.messages = Append(@, m), !.bell = None]],
        rcv |-> note_sent(IF q.bell # None THEN sender_send(w.rcv, q.bell[1])
                          ELSE w.rcv, path, w.next_cid),
        next_cid |-> w.next_cid + 1]

RECURSIVE receive_loop_pop_back(_, _, _)
\* receive_loop taking from the wrong end of the deque (pop_back)
receive_loop_pop_back(messages, messages_out, count) ==
    IF count = 0 \/ messages = <<>> THEN <<messages_out, messages>>
    ELSE receive_loop_pop_back(SubSeq(messages, 1, Len(messages) - 1),
                               Append(messages_out, messages[Len(messages)]), count - 1)

\* receive_loop reading the front of the deque without removing it (front,
\* or iter().take(count), for pop_front)
receive_loop_peek(messages, messages_out, count) ==
    <<messages_out \o SubSeq(messages, 1, IF count <= Len(messages) THEN count
                                          ELSE Len(messages)),
      messages>>

RECURSIVE receive_loop(_, _, _)
\* the loop of SQSQueue::receive_messages: pop_front up to count times
receive_loop(messages, messages_out, count) ==
    IF count = 0 \/ messages = <<>> THEN <<messages_out, messages>>
    ELSE receive_loop(Tail(messages), Append(messages_out, Head(messages)), count - 1)

\* SQSQueue::receive_messages: <<the messages popped, the messages left>>
receive_messages(q, count) == receive_loop(q.messages, <<>>, count)

\* ---------------------------------------------------------------- State methods
Put(f, k, v) == [x \in DOMAIN f \cup {k} |-> IF x = k THEN v ELSE f[x]]
Del(f, k) == [x \in DOMAIN f \ {k} |-> f[x]]

\* add_queue with HashMap::insert in place of the vacant-entry check
add_queue_insert(qs, queue) == Put(qs, get_queue_path(get_queue_url(queue.name)), queue)

add_queue(qs, queue) ==
    LET path == get_queue_path(get_queue_url(queue.name))
    IN IF path \in DOMAIN qs THEN qs ELSE Put(qs, path, queue)

remove_queue(qs, queue_url) == Del(qs, get_queue_path(queue_url))

SNSTopic_new(name, arn, attributes) ==
    [name |-> name, arn |-> arn, attributes |-> attributes, subscriptions |-> <<>>]

\* remove_topic that looks the topic up and leaves it
remove_topic_get(ts, topic_arn) == ts

add_topic(ts, topic) ==
    LET arn == get_topic_arn(topic.name)
    IN IF arn \in DOMAIN ts THEN ts ELSE Put(ts, arn, topic)

remove_topic(ts, topic_arn) == Del(ts, topic_arn)

ReceivedMessage_new(message, queue_path, timeout_seconds) ==
    [message |-> message, queue_path |-> queue_path, expires |-> now + timeout_seconds]

\* State::add_received_message, with handle the value ReceiveHandle::new() draws
add_received_message(rm, handle, message, queue_path, timeout_seconds) ==
    Put(rm, handle, ReceivedMessage_new(message, queue_path, timeout_seconds))

\* delete_received_message with the predicate of a retain inverted: it keeps
\* the record named and removes the others
delete_received_message_inverted(rm, handle) ==
    [h \in DOMAIN rm \cap {handle} |-> rm[h]]

\* delete_received_message looking the record up without removing it
delete_received_message_get(rm, handle) == rm

delete_received_message(rm, handle) == Del(rm, handle)

\* set_visibility_timeout that leaves expires as it is
set_visibility_timeout_keep(rec, visibility_timeout) == rec

has_expired(rec) == now > rec.expires

set_visibility_timeout(rec, visibility_timeout) ==
    [rec EXCEPT !.expires = now + visibility_timeout]

\* ------------------------------------------------------------ SNSTopic methods
SNSSubscription_new_sqs(topic_arn, endpoint, id) ==
    [id |-> id, arn |-> topic_arn \o <<":", id>>, owner |-> account_id,
     protocol |-> "sqs", endpoint |-> endpoint, topic_arn |-> topic_arn]

\* add_subscription without the check for an existing subscription
add_subscription_push(t, subscription) ==
    [t EXCEPT !.subscriptions = Append(@, subscription)]

add_subscription(t, subscription) ==
    IF \E i \in 1..Len(t.subscriptions) :
          /\ t.subscriptions[i].topic_arn = subscription.topic_arn
          /\ t.subscriptions[i].endpoint = subscription.endpoint
    THEN t
    ELSE [t EXCEPT !.subscriptions = Append(@, subscription)]

RECURSIVE retain_arn_not(_, _)
\* Vec::retain(|s| s.arn != subscription_arn)
retain_arn_not(subs, subscription_arn) ==
    IF subs = <<>> THEN <<>>
    ELSE IF Head(subs).arn # subscription_arn
         THEN <<Head(subs)>> \o retain_arn_not(Tail(subs), subscription_arn)
         ELSE retain_arn_not(Tail(subs), subscription_arn)

remove_subscription(t, subscription_arn) ==
    [t EXCEPT !.subscriptions = retain_arn_not(@, subscription_arn)]

get_queue_urls(t) == [i \in 1..Len(t.subscriptions) |-> t.subscriptions[i].endpoint]

\* ------------------------------------------------------------------- inputs
QueueUrls == {get_queue_url(n) : n \in QueueNames}
TopicArns == {get_topic_arn(n) : n \in TopicNames}
\* Subscribe's Endpoint: a queue by URL, the same queue by ARN, another queue
Endpoints == {get_queue_url("q1"), queue_arn("q1"), get_queue_url("q2")}
NoAttributes == [k \in {} |-> ""]
QueueAttributeInputs == {NoAttributes, [k \in {"VisibilityTimeout"} |-> "1"]}
TopicAttributeInputs == {NoAttributes, [k \in {"DisplayName"} |-> "d"]}
MaxNumberOfMessagesInputs ==
    {None, Some("2"), Some("10"), Some("0"), Some("11"), Some("x")}
WaitTimeSecondsInputs == {None, Some("1")}
VisibilityTimeoutInputs == {None, Some("0"), Some("2")}
\* <<MaxNumberOfMessages, WaitTimeSeconds, VisibilityTimeout>> of the
\* ReceiveMessage requests
ReceiveInputs ==
    ({None, Some("2")} \X WaitTimeSecondsInputs \X {None})
        \cup {<<None, None, Some("0")>>}
UnknownHandle == 0
\* the receipt handles a client may name: the ones in flight, the ones it
\* deleted before, and one that was never issued
HandleInputs == DOMAIN received_messages \cup deleted \cup {UnknownHandle}

\* what a handler answers: Ok or the error, and the value the response carries
Response(status, val) == [status |-> status, val |-> val]
NoValue == [k \in {} |-> ""]

Idle == [pc |-> "idle", queue_url |-> <<>>, max_count |-> 0, wait_time_seconds |-> 0,
         visibility_timeout_recv |-> None, rx_state |-> "none", deadline |-> 0,
         messages |-> <<>>, status |-> "", recorded |-> FALSE,
         \* history: the call parked; it returned before its deadline; (note_sent);
         \* (note_deleted); (note_other)
         parked |-> FALSE, early |-> FALSE, sent |-> None,
         deleted_since |-> FALSE, other_since |-> FALSE]

\* The registry after State::new
InitEmpty ==
    /\ queues = [p \in {} |-> 0]
    /\ topics = [a \in {} |-> 0]
    /\ next_id = 1

\* The registry after CreateQueue(q1)
InitQueue ==
    /\ queues = add_queue([p \in {} |-> 0],
                          set_attribute_default(SQSQueue_new("q1", NoAttributes),
                                                "VisibilityTimeout", "30"))
    /\ topics = [a \in {} |-> 0]
    /\ next_id = 1

\* The registry after CreateQueue(q1), CreateTopic(t1), Subscribe(t1, q1's URL)
InitSubscribed ==
    /\ queues = add_queue([p \in {} |-> 0],
                          set_attribute_default(SQSQueue_new("q1", NoAttributes),
                                                "VisibilityTimeout", "30"))
    /\ topics = LET arn == get_topic_arn("t1")
                    ts == add_topic([a \in {} |-> 0], SNSTopic_new("t1", arn, NoAttributes))
                IN [ts EXCEPT ![arn] = add_subscription(@,
                        SNSSubscription_new_sqs(arn, get_queue_url("q1"), 1))]
    /\ next_id = 2

\* A behaviour starts with the registry set up as setup says and nothing else
\* done yet
Start(setup) ==
    /\ setup
    /\ received_messages = [h \in {} |-> 0]
    /\ now = 0
    /\ rcv = [r \in Receivers |-> Idle]
    /\ resp = Response("", NoValue)
    /\ next_cid = 1
    /\ pop_log = [p \in QueuePaths |-> <<>>]
    /\ deleted = {}
    /\ events = 0

\* A behaviour starts at the server's start, or after one of two set-ups that
\* Next reaches from the server's start (SpecFromStart reaches AtInitQueue and
\* AtInitSubscribed), so that its events are spent on traffic
Init == Start(InitEmpty \/ InitQueue \/ InitSubscribed)

\* a request arrives, or the clock ticks
Event == events < MaxEvents /\ events' = events + 1
\* a request served only while no receive_message call is parked: the lock as
\* it would be if a call kept its guard across the wait
Request_lock_held == Event /\ \A r \in Receivers : rcv[r].pc # "parked"
Request == Event

\* ------------------------------------------------------------- sqs.rs handlers
create_queue(queue_name, attributes) ==
    /\ Request
    /\ LET q == set_attribute_default(SQSQueue_new(queue_name, attributes),
                                      "VisibilityTimeout", "30")
       IN queues' = add_queue(queues, q)
    /\ resp' = Response("Ok", [QueueUrl |-> get_queue_url(queue_name)])
    /\ UNCHANGED <<topics, received_messages, now, next_id, rcv, next_cid, pop_log, deleted>>

delete_queue(queue_url) ==
    /\ Request
    /\ LET path == get_queue_path(queue_url)
       IN /\ queues' = remove_queue(queues, queue_url)
          /\ rcv' = IF path \in DOMAIN queues
                    THEN note_deleted(sender_drop(rcv, queues[path].bell), path)
                    ELSE rcv
    /\ resp' = Response("Ok", NoValue)
    /\ UNCHANGED <<topics, received_messages, now, next_id, next_cid, pop_log, deleted>>

get_queue_attributes(queue_url) ==
    /\ Request
    /\ LET path == get_queue_path(queue_url)
       IN resp' = IF path \in DOMAIN queues
                  THEN Response("Ok", [Attributes |-> queues[path].attributes])
                  ELSE Response("QueueNotFound", NoValue)
    /\ UNCHANGED <<queues, topics, received_messages, now, next_id, rcv, next_cid,
                   pop_log, deleted>>

\* set_queue_attributes inserting the queue it does not find
set_queue_attributes_upsert(queue_url, attributes) ==
    /\ Request
    /\ LET path == get_queue_path(queue_url)
       IN queues' = IF path \in DOMAIN queues
                    THEN [queues EXCEPT ![path].attributes = attributes]
                    ELSE Put(queues, path, SQSQueue_new(path[1], attributes))
    /\ resp' = Response("Ok", NoValue)
    /\ UNCHANGED <<topics, received_messages, now, next_id, rcv, next_cid, pop_log, deleted>>

set_queue_attributes(queue_url, attributes) ==
    /\ Request
    /\ LET path == get_queue_path(queue_url)
       IN IF path \in DOMAIN queues
          THEN /\ queues' = [queues EXCEPT ![path].attributes = attributes]
               /\ resp' = Response("Ok", NoValue)
          ELSE /\ resp' = Response("QueueNotFound", NoValue)
               /\ UNCHANGED queues
    /\ UNCHANGED <<topics, received_messages, now, next_id, rcv, next_cid, pop_log, deleted>>

send_message(queue_url) ==
    /\ Request
    /\ LET path == get_queue_path(queue_url)
       IN IF path \in DOMAIN queues
          THEN LET message == Message_new(next_id)
                   w == SQSQueue_send_message(
                            [queues |-> queues, rcv |-> rcv, next_cid |-> next_cid],
                            path, message)
               IN /\ queues' = w.queues
                  /\ rcv' = w.rcv
                  /\ next_cid' = w.next_cid
                  /\ next_id' = next_id + 2
                  /\ resp' = Response("Ok", [MessageId |-> message.id])
          ELSE /\ resp' = Response("QueueNotFound", NoValue)
               /\ UNCHANGED <<queues, rcv, next_cid, next_id>>
    /\ UNCHANGED <<topics, received_messages, now, pop_log, deleted>>

delete_message(receipt_handle) ==
    /\ Request
    /\ received_messages' = delete_received_message(received_messages, receipt_handle)
    /\ deleted' = deleted \cup {receipt_handle}
    /\ resp' = Response("Ok", NoValue)
    /\ UNCHANGED <<queues, topics, now, next_id, rcv, next_cid, pop_log>>

change_message_visibility(receipt_handle, VisibilityTimeout) ==
    /\ Request
    /\ LET visibility_timeout_recv == parse_opt(VisibilityTimeout)
       IN IF visibility_timeout_recv # None /\ receipt_handle \in DOMAIN received_messages
          THEN received_messages' =
                  [received_messages EXCEPT ![receipt_handle] =
                      set_visibility_timeout(@, visibility_timeout_recv[1])]
          ELSE UNCHANGED received_messages
    /\ resp' = Response("Ok", NoValue)
    /\ UNCHANGED <<queues, topics, now, next_id, rcv, next_cid, pop_log, deleted>>

\* --------------------------------------------------------------- receive_message
\* get_message_or_waiter as the k-th check of call me, whose locals are in rs:
\* what it returns (kind, messages) and the queues and calls it leaves
get_message_or_waiter(rs, me, k) ==
    LET path == get_queue_path(rs[me].queue_url)
    IN IF path \notin DOMAIN queues
       THEN [kind |-> "Err", messages |-> <<>>, queues |-> queues, rcv |-> rs]
       ELSE LET q == queues[path]
                popped == receive_messages(q, rs[me].max_count)
            IN IF has_message(q)
               THEN [kind |-> "Message", messages |-> popped[1],
                     queues |-> [queues EXCEPT ![path].messages = popped[2]],
                     rcv |-> note_other(rs, me, path)]
               ELSE \* get_waiter: the new Sender replaces, and so drops, the old
                    [kind |-> "Waiter", messages |-> <<>>,
                     queues |-> [queues EXCEPT ![path].bell = Some(<<me, k>>)],
                     rcv |-> note_other(sender_drop(rs, q.bell), me, path)]

cids(messages) == [i \in 1..Len(messages) |-> messages[i].cid]

\* history: the copies a check popped, appended to the log of its queue path
logged(queue_url, got) ==
    IF got.kind = "Message"
    THEN [pop_log EXCEPT ![get_queue_path(queue_url)] = @ \o cids(got.messages)]
    ELSE pop_log

\* max_count brought into 1..10 by saturation
clamp_max_count_saturate(n) == IF n > MaxBatch THEN MaxBatch ELSE IF n < 1 THEN 1 ELSE n

clamp_max_count(n) == IF n > MaxBatch \/ n < 1 THEN 1 ELSE n

\* receive_message up to its first await that can suspend: the parameters are
\* parsed and the first get_message_or_waiter runs
ReceiveBegin(r, queue_url, MaxNumberOfMessages, WaitTimeSeconds, VisibilityTimeout) ==
    /\ Request
    /\ rcv[r].pc = "idle"
    /\ \A r2 \in Receivers : r2 < r => rcv[r2].pc # "idle"
    /\ LET max_count == clamp_max_count(unwrap_or(parse_opt(MaxNumberOfMessages), 1))
           wait_time_seconds == unwrap_or(parse_opt(WaitTimeSeconds), 0)
           mine == [rcv EXCEPT ![r].queue_url = queue_url,
                               ![r].max_count = max_count,
                               ![r].wait_time_seconds = wait_time_seconds,
                               ![r].visibility_timeout_recv = parse_opt(VisibilityTimeout)]
           got == get_message_or_waiter(mine, r, 1)
       IN /\ queues' = got.queues
          /\ pop_log' = logged(queue_url, got)
          /\ rcv' = CASE got.kind = "Err" ->
                           [got.rcv EXCEPT ![r].pc = "done", ![r].status = "QueueNotFound"]
                      [] got.kind = "Message" ->
                           [got.rcv EXCEPT ![r].pc = "record", ![r].messages = got.messages]
                      [] got.kind = "Waiter" /\ wait_time_seconds > 0 ->
                           [got.rcv EXCEPT ![r].pc = "parked", ![r].rx_state = "open",
                                           ![r].deadline = now + wait_time_seconds,
                                           ![r].parked = TRUE]
                      [] OTHER ->
                           [got.rcv EXCEPT ![r].pc = "done", ![r].status = "Ok"]
    /\ UNCHANGED <<topics, received_messages, now, next_id, resp, next_cid, deleted>>

\* ReceiveWake that trusts the wake-up: a call woken by a send returns the
\* copy it was signalled for without a second check of the queue
ReceiveWake_trusting(r) ==
    /\ rcv[r].pc = "parked"
    /\ rcv[r].rx_state \in {"sent", "closed"}
    /\ rcv' = IF rcv[r].rx_state = "sent" /\ rcv[r].sent # None
              THEN [rcv EXCEPT ![r].pc = "record",
                               ![r].messages =
                                   <<[Message_new(0) EXCEPT !.cid = rcv[r].sent[1]]>>]
              ELSE [rcv EXCEPT ![r].pc = "done", ![r].status = "Ok",
                               ![r].early = now < rcv[r].deadline]
    /\ UNCHANGED <<queues, topics, received_messages, now, next_id, resp, next_cid,
                   pop_log, deleted, events>>

\* the wait ends with the receiver resolved (a send, or the Sender dropped:
\* timeout(..).await.is_ok() holds for both): the second get_message_or_waiter
ReceiveWake(r) ==
    /\ rcv[r].pc = "parked"
    /\ rcv[r].rx_state \in {"sent", "closed"}
    /\ LET got == get_message_or_waiter(rcv, r, 2)
       IN /\ queues' = got.queues
          /\ pop_log' = logged(rcv[r].queue_url, got)
          /\ rcv' = CASE got.kind = "Err" ->
                           [got.rcv EXCEPT ![r].pc = "done", ![r].status = "QueueNotFound",
                                           ![r].early = now < rcv[r].deadline]
                      [] got.kind = "Message" ->
                           [got.rcv EXCEPT ![r].pc = "record", ![r].messages = got.messages]
                      [] OTHER ->
                           [got.rcv EXCEPT ![r].pc = "done", ![r].status = "Ok",
                                           ![r].early = now < rcv[r].deadline]
    /\ UNCHANGED <<topics, received_messages, now, next_id, resp, next_cid, deleted, events>>

\* the wait without a timer: w.await in place of timeout(.., w).await
ReceiveTimeout_no_timer(r) ==
    /\ rcv[r].pc = "parked"
    /\ rcv[r].rx_state = "open"
    /\ FALSE
    /\ UNCHANGED vars

\* the wait ends with the timer: Elapsed, the receiver is dropped, no lock taken
ReceiveTimeout(r) ==
    /\ rcv[r].pc = "parked"
    /\ rcv[r].rx_state = "open"
    /\ now >= rcv[r].deadline
    /\ rcv' = [rcv EXCEPT ![r].pc = "done", ![r].status = "Ok"]
    /\ UNCHANGED <<queues, topics, received_messages, now, next_id, resp, next_cid,
                   pop_log, deleted, events>>

RECURSIVE record_loop_one_handle(_, _, _, _, _, _)
\* record_loop with the receipt handle drawn once, before the loop
record_loop_one_handle(messages, done, rm, id, path, visibility_timeout) ==
    IF messages = <<>> THEN <<done, rm, id + 1>>
    ELSE LET counted == [Head(messages) EXCEPT !.receive_count = @ + 1]
         IN record_loop_one_handle(Tail(messages),
                        Append(done, [counted EXCEPT !.receipt_handle = id]),
                        add_received_message(rm, id, counted, path, visibility_timeout),
                        id, path, visibility_timeout)

RECURSIVE record_loop(_, _, _, _, _, _)
\* the loop over messages.iter_mut(): <<messages, received_messages, next id>>
record_loop(messages, done, rm, id, path, visibility_timeout) ==
    IF messages = <<>> THEN <<done, rm, id>>
    ELSE LET counted == [Head(messages) EXCEPT !.receive_count = @ + 1]
         IN record_loop(Tail(messages),
                        Append(done, [counted EXCEPT !.receipt_handle = id]),
                        add_received_message(rm, id, counted, path, visibility_timeout),
                        id + 1, path, visibility_timeout)

\* the record step preferring the visibility timeout of the queue to that of
\* the request
ReceiveRecord_queue_first(r) ==
    /\ rcv[r].pc = "record"
    /\ LET path == get_queue_path(rcv[r].queue_url)
       IN IF path \in DOMAIN queues
          THEN LET visibility_timeout_queue ==
                       parse(get_attribute(queues[path], "VisibilityTimeout", "600"))
                   visibility_timeout ==
                       unwrap_or(visibility_timeout_queue,
                                 unwrap_or(rcv[r].visibility_timeout_recv,
                                           FallbackVisibilityTimeout))
                   out == record_loop(rcv[r].messages, <<>>, received_messages, next_id,
                                      path, visibility_timeout)
               IN /\ received_messages' = out[2]
                  /\ next_id' = out[3]
                  /\ rcv' = [note_other(rcv, r, path) EXCEPT
                                ![r].pc = "done", ![r].status = "Ok", ![r].messages = out[1],
                                ![r].recorded = TRUE]
          ELSE /\ rcv' = [rcv EXCEPT ![r].pc = "done", ![r].status = "Ok"]
               /\ UNCHANGED <<received_messages, next_id>>
    /\ UNCHANGED <<queues, topics, now, resp, next_cid, pop_log, deleted, events>>

\* the popped messages are recorded as in flight, if their queue still exists
ReceiveRecord(r) ==
    /\ rcv[r].pc = "record"
    /\ LET path == get_queue_path(rcv[r].queue_url)
       IN IF path \in DOMAIN queues
          THEN LET visibility_timeout_queue ==
                       unwrap_or(parse(get_attribute(queues[path], "VisibilityTimeout", "600")),
                                 FallbackVisibilityTimeout)
                   visibility_timeout ==
                       unwrap_or(rcv[r].visibility_timeout_recv, visibility_timeout_queue)
                   out == record_loop(rcv[r].messages, <<>>, received_messages, next_id,
                                      path, visibility_timeout)
               IN /\ received_messages' = out[2]
                  /\ next_id' = out[3]
                  /\ rcv' = [note_other(rcv, r, path) EXCEPT
                                ![r].pc = "done", ![r].status = "Ok", ![r].messages = out[1],
                                ![r].recorded = TRUE]
          ELSE /\ rcv' = [rcv EXCEPT ![r].pc = "done", ![r].status = "Ok"]
               /\ UNCHANGED <<received_messages, next_id>>
    /\ UNCHANGED <<queues, topics, now, resp, next_cid, pop_log, deleted, events>>

\* ------------------------------------------------------------- sns.rs handlers
create_topic(topic_name, attributes) ==
    /\ Request
    /\ topics' = add_topic(topics, SNSTopic_new(topic_name, get_topic_arn(topic_name), attributes))
    /\ resp' = Response("Ok", [TopicArn |-> get_topic_arn(topic_name)])
    /\ UNCHANGED <<queues, received_messages, now, next_id, rcv, next_cid, pop_log, deleted>>

delete_topic(topic_arn) ==
    /\ Request
    /\ topics' = remove_topic(topics, topic_arn)
    /\ resp' = Response("Ok", NoValue)
    /\ UNCHANGED <<queues, received_messages, now, next_id, rcv, next_cid, pop_log, deleted>>

\* publish's loop sending to the first queue url only
fan_out_first(w, queue_urls, message) ==
    IF queue_urls = <<>> THEN w
    ELSE LET path == get_queue_path(Head(queue_urls))
         IN IF path \in DOMAIN w.queues
            THEN SQSQueue_send_message(w, path, message) ELSE w

get_topic_attributes(topic_arn) ==
    /\ Request
    /\ resp' = IF topic_arn \in DOMAIN topics
               THEN Response("Ok", [Attributes |-> topics[topic_arn].attributes])
               ELSE Response("TopicNotFound", NoValue)
    /\ UNCHANGED <<queues, topics, received_messages, now, next_id, rcv, next_cid,
                   pop_log, deleted>>

set_topic_attributes(topic_arn, attributes) ==
    /\ Request
    /\ IF topic_arn \in DOMAIN topics
       THEN /\ topics' = [topics EXCEPT ![topic_arn].attributes = attributes]
            /\ resp' = Response("Ok", NoValue)
       ELSE /\ resp' = Response("TopicNotFound", NoValue)
            /\ UNCHANGED topics
    /\ UNCHANGED <<queues, received_messages, now, next_id, rcv, next_cid, pop_log, deleted>>

\* the subscription arns of every topic, as ListSubscriptions renders them
list_subscriptions ==
    /\ Request
    /\ resp' = Response("Ok",
                 [Subscriptions |->
                    UNION {{<<topics[a].subscriptions[i].topic_arn,
                              topics[a].subscriptions[i].arn>> :
                                i \in 1..Len(topics[a].subscriptions)} :
                           a \in DOMAIN topics}])
    /\ UNCHANGED <<queues, topics, received_messages, now, next_id, rcv, next_cid,
                   pop_log, deleted>>

list_subscriptions_by_topic(topic_arn) ==
    /\ Request
    /\ resp' = IF topic_arn \in DOMAIN topics
               THEN Response("Ok",
                       [Subscriptions |->
                          [i \in 1..Len(topics[topic_arn].subscriptions) |->
                              topics[topic_arn].subscriptions[i].arn]])
               ELSE Response("TopicNotFound", NoValue)
    /\ UNCHANGED <<queues, topics, received_messages, now, next_id, rcv, next_cid,
                   pop_log, deleted>>

RECURSIVE fan_out_stop(_, _, _)
\* publish's loop leaving at the first queue url that names no queue
fan_out_stop(w, queue_urls, message) ==
    IF queue_urls = <<>> THEN w
    ELSE LET path == get_queue_path(Head(queue_urls))
         IN IF path \in DOMAIN w.queues
            THEN fan_out_stop(SQSQueue_send_message(w, path, message),
                              Tail(queue_urls), message)
            ELSE w

RECURSIVE fan_out(_, _, _)
\* publish's loop over queue_urls: a clone of message to every queue that exists
fan_out(w, queue_urls, message) ==
    IF queue_urls = <<>> THEN w
    ELSE LET path == get_queue_path(Head(queue_urls))
         IN fan_out(IF path \in DOMAIN w.queues
                    THEN SQSQueue_send_message(w, path, message) ELSE w,
                    Tail(queue_urls), message)

publish(target_arn) ==
    /\ Request
    /\ IF target_arn \in DOMAIN topics
       THEN LET message == Message_new(next_id)
                w == fan_out([queues |-> queues, rcv |-> rcv, next_cid |-> next_cid],
                             get_queue_urls(topics[target_arn]), message)
            IN /\ queues' = w.queues
               /\ rcv' = w.rcv
               /\ next_cid' = w.next_cid
               /\ next_id' = next_id + 2
               /\ resp' = Response("Ok", [MessageId |-> message.id])
       ELSE /\ resp' = Response("TopicNotFound", NoValue)
            /\ UNCHANGED <<queues, rcv, next_cid, next_id>>
    /\ UNCHANGED <<topics, received_messages, now, pop_log, deleted>>

subscribe(topic_arn, endpoint) ==
    /\ Request
    /\ IF topic_arn \in DOMAIN topics
       THEN LET subscription == SNSSubscription_new_sqs(topic_arn, endpoint, next_id)
            IN /\ topics' = [topics EXCEPT ![topic_arn] = add_subscription(@, subscription)]
               /\ next_id' = next_id + 1
               /\ resp' = Response("Ok", [SubscriptionArn |-> subscription.arn])
       ELSE /\ resp' = Response("TopicNotFound", NoValue)
            /\ UNCHANGED <<topics, next_id>>
    /\ UNCHANGED <<queues, received_messages, now, rcv, next_cid, pop_log, deleted>>

unsubscribe(subscription_arn) ==
    /\ Request
    /\ topics' = [a \in DOMAIN topics |-> remove_subscription(topics[a], subscription_arn)]
    /\ resp' = Response("Ok", NoValue)
    /\ UNCHANGED <<queues, received_messages, now, next_id, rcv, next_cid, pop_log, deleted>>

\* the subscription arns a client may name: the ones stored, and the one the
\* Subscribe it just made returned
SubscriptionArnInputs ==
    UNION {{topics[a].subscriptions[i].arn : i \in 1..Len(topics[a].subscriptions)} :
           a \in DOMAIN topics}
    \cup (IF "SubscriptionArn" \in DOMAIN resp.val THEN {resp.val.SubscriptionArn} ELSE {})

\* ------------------------------------------------------------------- the clock
Tick ==
    /\ Event
    /\ now' = now + 1
    /\ UNCHANGED <<queues, topics, received_messages, next_id, rcv, resp, next_cid,
                   pop_log, deleted>>

\* ---------------------------------------------------------------- specification
\* The queue engine: queues, sends, fan-out and the receive protocol
Next ==
    \/ \E n \in QueueNames : create_queue(n, NoAttributes)
    \/ \E u \in QueueUrls : delete_queue(u)
    \/ \E u \in QueueUrls : send_message(u)
    \/ \E h \in HandleInputs : delete_message(h)
    \/ \E h \in HandleInputs, v \in VisibilityTimeoutInputs : change_message_visibility(h, v)
    \/ \E n \in TopicNames : create_topic(n, NoAttributes)
    \/ \E a \in TopicArns : publish(a)
    \/ \E a \in TopicArns, u \in QueueUrls : subscribe(a, u)
    \/ \E r \in Receivers, u \in QueueUrls, i \in ReceiveInputs :
          ReceiveBegin(r, u, i[1], i[2], i[3])
    \/ \E r \in Receivers : ReceiveWake(r)
    \/ \E r \in Receivers : ReceiveTimeout(r)
    \/ \E r \in Receivers : ReceiveRecord(r)
    \/ Tick

Spec == Init /\ [][Next]_vars

\* The topic registry: topics, subscriptions by queue URL and by queue ARN,
\* and publishing to them
NextSns ==
    \/ \E n \in QueueNames : create_queue(n, NoAttributes)
    \/ \E u \in QueueUrls : delete_queue(u)
    \/ \E n \in TopicNames : create_topic(n, NoAttributes)
    \/ \E a \in TopicArns : delete_topic(a)
    \/ \E a \in TopicArns, e \in Endpoints : subscribe(a, e)
    \/ \E sa \in SubscriptionArnInputs : unsubscribe(sa)
    \/ \E a \in TopicArns : publish(a)
    \/ list_subscriptions

SpecSns == Init /\ [][NextSns]_vars

\* <<MaxNumberOfMessages, WaitTimeSeconds>> of the ReceiveMessage requests of
\* NextAdmin
AdminReceiveInputs == {<<None, None>>, <<None, Some("1")>>}

\* Every handler that names a queue or a topic, with the attributes, on
\* registries where the name may or may not resolve
NextAdmin ==
    \/ \E n \in QueueNames, at \in QueueAttributeInputs : create_queue(n, at)
    \/ \E u \in QueueUrls : delete_queue(u)
    \/ \E u \in QueueUrls : get_queue_attributes(u)
    \/ \E u \in QueueUrls, at \in QueueAttributeInputs : set_queue_attributes(u, at)
    \/ \E u \in QueueUrls : send_message(u)
    \/ \E r \in Receivers, u \in QueueUrls, i \in AdminReceiveInputs :
          ReceiveBegin(r, u, i[1], i[2], None)
    \/ \E r \in Receivers : ReceiveWake(r)
    \/ \E r \in Receivers : ReceiveRecord(r)
    \/ \E n \in TopicNames, at \in TopicAttributeInputs : create_topic(n, at)
    \/ \E a \in TopicArns : get_topic_attributes(a)
    \/ \E a \in TopicArns, at \in TopicAttributeInputs : set_topic_attributes(a, at)
    \/ \E a \in TopicArns : list_subscriptions_by_topic(a)
    \/ \E a \in TopicArns : publish(a)
    \/ \E a \in TopicArns, u \in QueueUrls : subscribe(a, u)

SpecAdmin == Init /\ [][NextAdmin]_vars

\* <<MaxNumberOfMessages, WaitTimeSeconds>> of the ReceiveMessage requests of
\* NextBatch
BatchReceiveInputs ==
    (MaxNumberOfMessagesInputs \X {None}) \cup {<<Some("2"), Some("1")>>}

\* Sends and receives with every form of MaxNumberOfMessages
NextBatch ==
    \/ \E u \in QueueUrls : send_message(u)
    \/ \E r \in Receivers, u \in QueueUrls, i \in BatchReceiveInputs :
          ReceiveBegin(r, u, i[1], i[2], None)
    \/ \E r \in Receivers : ReceiveWake(r)
    \/ \E r \in Receivers : ReceiveRecord(r)

SpecBatch == Init /\ [][NextBatch]_vars

\* <<MaxNumberOfMessages, WaitTimeSeconds>> of the ReceiveMessage requests of
\* NextLongPoll
LongPollReceiveInputs == {None} \X WaitTimeSecondsInputs

\* Long polling: receives that wait and receives that do not, with the sends,
\* publishes and queue operations that can come between their steps
NextLongPoll ==
    \/ \E n \in QueueNames : create_queue(n, NoAttributes)
    \/ \E u \in QueueUrls : delete_queue(u)
    \/ \E u \in QueueUrls : send_message(u)
    \/ \E a \in TopicArns : publish(a)
    \/ \E r \in Receivers, u \in QueueUrls, i \in LongPollReceiveInputs :
          ReceiveBegin(r, u, i[1], i[2], None)
    \/ \E r \in Receivers : ReceiveWake(r)
    \/ \E r \in Receivers : ReceiveTimeout(r)
    \/ \E r \in Receivers : ReceiveRecord(r)
    \/ Tick

SpecLongPoll == Init /\ [][NextLongPoll]_vars

\* the timer of tokio::time::timeout: time passes while a parked call waits
\* for its deadline
TimerTick ==
    /\ \E r \in Receivers :
          rcv[r].pc = "parked" /\ rcv[r].rx_state = "open" /\ now < rcv[r].deadline
    /\ now' = now + 1
    /\ UNCHANGED <<queues, topics, received_messages, next_id, rcv, resp, next_cid,
                   pop_log, deleted, events>>

\* Long polling on a queue that exists at the start, with the clock driven by
\* the pending timers, however many requests have been served
NextTimed ==
    \/ \E u \in QueueUrls : delete_queue(u)
    \/ \E u \in QueueUrls : send_message(u)
    \/ \E r \in Receivers, u \in QueueUrls, i \in LongPollReceiveInputs :
          ReceiveBegin(r, u, i[1], i[2], None)
    \/ \E r \in Receivers : ReceiveWake(r)
    \/ \E r \in Receivers : ReceiveTimeout(r)
    \/ \E r \in Receivers : ReceiveRecord(r)
    \/ TimerTick

\* The tasks of the calls in progress are scheduled and the timer runs: while
\* some call can take its next step one of them does, and a deadline that is
\* pending comes.
\* Requests are the environment's and are not forced.
SpecTimed ==
    /\ Start(InitQueue) /\ [][NextTimed]_vars
    /\ WF_vars(TimerTick)
    /\ WF_vars(\E r \in Receivers : ReceiveWake(r) \/ ReceiveTimeout(r) \/ ReceiveRecord(r))

\* the VisibilityTimeout of the ReceiveMessage requests, and the attributes of
\* the CreateQueue and SetQueueAttributes requests, of NextVisibility
VisibilityRequestInputs == VisibilityTimeoutInputs \cup {Some("x")}
VisibilityAttributeInputs == QueueAttributeInputs \cup {[VisibilityTimeout |-> "x"]}

\* Deliveries from queues whose attributes are set at creation and changed
\* later, to requests with and without a visibility timeout of their own
NextVisibility ==
    \/ \E n \in QueueNames, at \in VisibilityAttributeInputs : create_queue(n, at)
    \/ \E u \in QueueUrls, at \in VisibilityAttributeInputs : set_queue_attributes(u, at)
    \/ \E u \in QueueUrls : send_message(u)
    \/ \E r \in Receivers, u \in QueueUrls, v \in VisibilityRequestInputs :
          ReceiveBegin(r, u, None, None, v)
    \/ \E r \in Receivers : ReceiveRecord(r)
    \/ Tick

SpecVisibility == Init /\ [][NextVisibility]_vars

\* ------------------------------------------------------------ the dispatcher
\* the queue urls, as ListQueues renders them
list_queues ==
    /\ Request
    /\ resp' = Response("Ok", [QueueUrls |-> {get_queue_url(queues[p].name) :
                                                p \in DOMAIN queues}])
    /\ UNCHANGED <<queues, topics, received_messages, now, next_id, rcv, next_cid,
                   pop_log, deleted>>

\* the topic arns, as ListTopics renders them
list_topics ==
    /\ Request
    /\ resp' = Response("Ok", [Topics |-> {topics[a].arn : a \in DOMAIN topics}])
    /\ UNCHANGED <<queues, topics, received_messages, now, next_id, rcv, next_cid,
                   pop_log, deleted>>

\* an error of the dispatcher itself: no handler runs
dispatch_error(e) ==
    /\ Request
    /\ resp' = Response(e, NoValue)
    /\ UNCHANGED <<queues, topics, received_messages, now, next_id, rcv, next_cid,
                   pop_log, deleted>>

\* handle_request: the match on the form's Action.  ReceiveMessage runs up to
\* its first check here and goes on in ReceiveRecord.
handle_request(f) ==
    IF f.Action = None THEN dispatch_error("MissingAction")
    ELSE LET action == f.Action[1]
         IN CASE action = "ListQueues" -> list_queues
              [] action = "CreateQueue" -> create_queue(f.QueueName, NoAttributes)
              [] action = "DeleteQueue" -> delete_queue(f.QueueUrl)
              [] action = "GetQueueAttributes" -> get_queue_attributes(f.QueueUrl)
              [] action = "SetQueueAttributes" -> set_queue_attributes(f.QueueUrl, NoAttributes)
              [] action = "SendMessage" -> send_message(f.QueueUrl)
              [] action = "ReceiveMessage" ->
                    \E r \in Receivers : ReceiveBegin(r, f.QueueUrl, None, None, None)
              [] action = "ListTopics" -> list_topics
              [] action = "CreateTopic" -> create_topic(f.Name, NoAttributes)
              [] action = "DeleteTopic" -> delete_topic(f.TopicArn)
              [] action = "GetTopicAttributes" -> get_topic_attributes(f.TopicArn)
              [] action = "SetTopicAttributes" -> set_topic_attributes(f.TopicArn, NoAttributes)
              [] action = "Publish" -> publish(f.TopicArn)
              [] action = "Subscribe" -> subscribe(f.TopicArn, f.Endpoint)
              [] action = "Unsubscribe" -> unsubscribe(f.SubscriptionArn)
              [] action = "ListSubscriptions" -> list_subscriptions
              [] action = "ListSubscriptionsByTopic" -> list_subscriptions_by_topic(f.TopicArn)
              [] OTHER -> dispatch_error("UnknownAction")

\* the Action of the requests: absent, the operations of the interface, and a
\* name that is none of them
InterfaceOperations ==
    {"ListQueues", "CreateQueue", "DeleteQueue", "GetQueueAttributes",
     "SetQueueAttributes", "SendMessage", "ReceiveMessage", "DeleteMessage",
     "ChangeMessageVisibility", "ListTopics", "CreateTopic", "DeleteTopic",
     "GetTopicAttributes", "SetTopicAttributes", "Publish", "Subscribe",
     "Unsubscribe", "ListSubscriptions", "ListSubscriptionsByTopic"}
ActionInputs == {None} \cup {Some(a) : a \in InterfaceOperations \cup {"PurgeQueue"}}

\* the forms of the requests: one queue and one topic, and the receipt handles
\* and subscription arns a client may name
Forms ==
    {[Action |-> a, QueueName |-> "q1", QueueUrl |-> get_queue_url("q1"),
      Name |-> "t1", TopicArn |-> get_topic_arn("t1"),
      Endpoint |-> get_queue_url("q1"), ReceiptHandle |-> h, SubscriptionArn |-> sa,
      VisibilityTimeout |-> Some("2")] :
        a \in ActionInputs, h \in HandleInputs,
        sa \in SubscriptionArnInputs \cup {get_topic_arn("t1") \o <<":", 0>>}}

\* The server as its clients reach it: every request goes through the
\* dispatcher
NextDispatch ==
    \/ \E f \in Forms : handle_request(f)
    \/ \E r \in Receivers : ReceiveRecord(r)

SpecDispatch == Init /\ [][NextDispatch]_vars

\* ------------------------------------------------------------------- claims
\* the deliveries: <<r, i>> for the i-th message call r popped
Popped == {d \in Receivers \X (1..MaxBatch) : d[2] <= Len(rcv[d[1]].messages)}
\* the deliveries recorded as in flight, whose receipt handle the caller got
Delivered == {d \in Popped : rcv[d[1]].recorded}
msg(d) == rcv[d[1]].messages[d[2]]
Pending(cid) ==
    \E p \in DOMAIN queues : \E i \in 1..Len(queues[p].messages) :
        queues[p].messages[i].cid = cid

\* the identifiers a behaviour can draw
Ids == 0..(3 * MaxEvents + 2)

InFlightExpired(h) ==
    h \in DOMAIN received_messages /\ has_expired(received_messages[h])

\* C1: FIFO per queue.  The copies popped from a queue, across all receive
\* calls in pop order and in result order within a call, come out in the order
\* they were appended to it (copies are numbered as they are appended).
C1_FifoPerQueue ==
    \A p \in QueuePaths : \A i, j \in 1..Len(pop_log[p]) :
        i < j => pop_log[p][i] < pop_log[p][j]

\* C1's case: two receive calls have popped from one queue, the second taking
\* what the first left
C1_Witness ==
    \E r1, r2 \in Receivers : \E p \in QueuePaths :
        /\ r1 # r2
        /\ rcv[r1].queue_url = rcv[r2].queue_url
        /\ rcv[r1].messages # <<>> /\ rcv[r2].messages # <<>>
        /\ Len(pop_log[p]) >= 2

\* copy c is in flight under a handle nobody deleted, its visibility timeout
\* elapsed
ExpiredCopy(c) ==
    \E h \in DOMAIN received_messages :
        /\ received_messages[h].message.cid = c
        /\ has_expired(received_messages[h])
        /\ h \notin deleted
InFlightCopy(c) ==
    \E h \in DOMAIN received_messages : received_messages[h].message.cid = c
DeletedCopy(c) ==
    \E d \in Delivered : msg(d).cid = c /\ msg(d).receipt_handle \in deleted

\* C2: redelivery after expiry.  A delivered copy whose visibility timeout has
\* elapsed, with no DeleteMessage for its handle, eventually has its in-flight
\* record removed and is pending again in a queue, unless it is deleted first.
C2_RedeliveryAfterExpiry ==
    \A c \in 1..MaxEvents :
        ExpiredCopy(c) ~> (DeletedCopy(c) \/ (Pending(c) /\ ~InFlightCopy(c)))

\* C2's case: a delivered message's visibility timeout has elapsed and nobody
\* deleted it
C2_Witness ==
    \E d \in Delivered :
        /\ InFlightExpired(msg(d).receipt_handle)
        /\ msg(d).receipt_handle \notin deleted
        /\ get_queue_path(rcv[d[1]].queue_url) \in DOMAIN queues

\* C3: exclusive delivery.  A copy appended to a queue is popped by at most
\* one receive call, once, and is no longer pending once a call has it.
C3_ExclusiveDelivery ==
    /\ \A d1, d2 \in Popped : msg(d1).cid = msg(d2).cid => d1 = d2
    /\ \A d \in Popped : ~Pending(msg(d).cid)

\* C3's case: two receive calls raced on one queue that held messages; one got
\* a message and the other did not get it
C3_Witness ==
    \E r1, r2 \in Receivers :
        /\ r1 # r2
        /\ rcv[r1].queue_url = rcv[r2].queue_url
        /\ rcv[r1].pc = "record" /\ rcv[r2].pc = "record"

\* C4: deleted means gone.  Once DeleteMessage was called with the handle of a
\* delivered message, that copy is held by the one call that was given the
\* handle, is pending in no queue, and has no in-flight record: no receive can
\* return it, and a queue whose only message it was is empty.
C4_DeletedMeansGone ==
    \A d \in Delivered :
        msg(d).receipt_handle \in deleted =>
            /\ \A d2 \in Popped : msg(d2).cid = msg(d).cid => d2 = d
            /\ ~Pending(msg(d).cid)
            /\ msg(d).receipt_handle \notin DOMAIN received_messages

\* C4's case: a queue's only message was received and deleted, and a later
\* receive call that does not wait returned an empty result
C4_Witness ==
    \E d \in Delivered : \E r2 \in Receivers :
        /\ msg(d).receipt_handle \in deleted
        /\ next_cid = 2
        /\ r2 > d[1]
        /\ rcv[r2].queue_url = rcv[d[1]].queue_url
        /\ get_queue_path(rcv[r2].queue_url) \in DOMAIN queues
        /\ rcv[r2].wait_time_seconds = 0
        /\ rcv[r2].pc = "done" /\ rcv[r2].status = "Ok" /\ rcv[r2].messages = <<>>

\* C5: delete idempotence.  DeleteMessage(h) with h not in flight (unknown,
\* deleted or expired) answers Ok and leaves queues, topics and the in-flight
\* table as they were; so do DeleteMessage(h) and ChangeMessageVisibility(h, t)
\* for every h DeleteMessage was called with before.
C5_DeleteIdempotent ==
    [][\A h \in Ids :
          /\ (delete_message(h) /\ h \notin DOMAIN received_messages)
                => (UNCHANGED registry /\ resp'.status = "Ok")
          /\ (h \in deleted /\ (delete_message(h)
                                \/ \E v \in VisibilityTimeoutInputs :
                                      change_message_visibility(h, v)))
                => (UNCHANGED registry /\ resp'.status = "Ok")]_vars

\* C5's case: a handle was deleted while another message was in flight
C5_Witness ==
    \E h \in deleted : h # UnknownHandle /\ DOMAIN received_messages # {}

\* C5 as stated, with the expired handles: DeleteMessage(h) with h unknown,
\* deleted or expired answers Ok and leaves the registry as it was, and so do
\* DeleteMessage(h) and ChangeMessageVisibility(h, t) after a DeleteMessage(h).
C5_DeleteIdempotentExpired ==
    [][\A h \in Ids :
          /\ (delete_message(h)
                 /\ (h \in DOMAIN received_messages => has_expired(received_messages[h])))
                => (UNCHANGED registry /\ resp'.status = "Ok")
          /\ (h \in deleted /\ (delete_message(h)
                                \/ \E v \in VisibilityTimeoutInputs :
                                      change_message_visibility(h, v)))
                => (UNCHANGED registry /\ resp'.status = "Ok")]_vars

\* C6: receipt-handle uniqueness.  No two deliveries were given the same
\* receipt handle, and the in-flight record under a delivery's handle is that
\* delivery's until it is deleted: no later delivery overwrote it.
C6_HandlesUnique ==
    /\ \A d1, d2 \in Delivered :
          msg(d1).receipt_handle = msg(d2).receipt_handle => d1 = d2
    /\ \A d \in Delivered :
          msg(d).receipt_handle \notin deleted =>
             /\ msg(d).receipt_handle \in DOMAIN received_messages
             /\ received_messages[msg(d).receipt_handle].message.cid = msg(d).cid

\* C6's case: two deliveries are in flight at once
C6_Witness ==
    \E d1, d2 \in Delivered :
        /\ d1 # d2
        /\ {msg(d1).receipt_handle, msg(d2).receipt_handle} \subseteq DOMAIN received_messages

Subscriptions(a) == {topics[a].subscriptions[i] : i \in 1..Len(topics[a].subscriptions)}
Stored(subscription_arn) ==
    \E a \in DOMAIN topics : \E sub \in Subscriptions(a) : sub.arn = subscription_arn

\* C7: idempotent subscribe.  No topic holds two subscriptions with the same
\* endpoint, and Subscribe(topic, endpoint) with a subscription for that
\* endpoint already in the topic leaves the topic's subscription list as it was.
C7_IdempotentSubscribe ==
    [][/\ \A a \in DOMAIN topics' : \A i, j \in 1..Len(topics'[a].subscriptions) :
             topics'[a].subscriptions[i].endpoint = topics'[a].subscriptions[j].endpoint
                => i = j
       /\ \A a \in DOMAIN topics : \A e \in Endpoints :
             (subscribe(a, e) /\ \E sub \in Subscriptions(a) : sub.endpoint = e)
                => topics' = topics]_vars

\* C7's case: Subscribe was called for an endpoint the topic already had; the
\* topic still holds the one subscription, under its first arn
C7_Witness ==
    /\ resp.status = "Ok" /\ "SubscriptionArn" \in DOMAIN resp.val
    /\ \E a \in DOMAIN topics :
          /\ Len(topics[a].subscriptions) = 1
          /\ topics[a].subscriptions[1].arn # resp.val.SubscriptionArn

\* C8: subscription arn usable for unsubscribe.  The arn a successful Subscribe
\* returned, while it is the latest response, is the arn of a stored
\* subscription.
C8_ReturnedArnStored ==
    (resp.status = "Ok" /\ "SubscriptionArn" \in DOMAIN resp.val)
        => Stored(resp.val.SubscriptionArn)

\* C8's case: a first Subscribe returned the arn it stored
C8_Witness ==
    /\ resp.status = "Ok" /\ "SubscriptionArn" \in DOMAIN resp.val
    /\ Stored(resp.val.SubscriptionArn)

\* a message was sent to the queue call r was parked on, before its deadline,
\* and no other receive call has taken the lock on that queue since r parked
SentWhileParked(r) ==
    rcv[r].parked /\ rcv[r].sent # None /\ ~rcv[r].other_since

Returned(r, cid) ==
    \E i \in 1..Len(rcv[r].messages) : rcv[r].messages[i].cid = cid

WokenWith(r) ==
    /\ rcv[r].pc = "parked" => rcv[r].rx_state = "sent"
    /\ rcv[r].pc = "record" => Returned(r, rcv[r].sent[1])
    /\ rcv[r].pc = "done" => rcv[r].status = "Ok" /\ Returned(r, rcv[r].sent[1])

C10_NotEarly ==
    \A r \in Receivers :
        (rcv[r].pc = "done" /\ rcv[r].parked /\ rcv[r].sent = None
            /\ ~rcv[r].deleted_since /\ rcv[r].messages = <<>>)
                => ~rcv[r].early

\* C10's case: a receive that parked on a queue which stayed empty returned
\* an empty result when its timer fired
C10_Witness ==
    \E r \in Receivers :
        /\ rcv[r].pc = "done" /\ rcv[r].parked /\ rcv[r].sent = None
        /\ ~rcv[r].deleted_since /\ rcv[r].messages = <<>>
        /\ ~rcv[r].early /\ now >= rcv[r].deadline

\* the positions of topic a's subscriptions whose endpoint resolves to path p
SubscribedAt(a, p) ==
    {i \in 1..Len(topics[a].subscriptions) :
        get_queue_path(topics[a].subscriptions[i].endpoint) = p}

\* queue p after the step is queue p before it with n copies of the message
\* with this id at the back
Appended(p, n, id) ==
    LET old == queues[p].messages
        new == queues'[p].messages
    IN /\ Len(new) = Len(old) + n
       /\ SubSeq(new, 1, Len(old)) = old
       /\ \A i \in (Len(old) + 1)..Len(new) : new[i].id = id
       /\ queues'[p].name = queues[p].name
       /\ queues'[p].attributes = queues[p].attributes

\* C11: topic fan-out.  A Publish to an existing topic answers Ok with the id
\* of one new message and appends, for every subscription of the topic whose
\* endpoint names an existing queue, a copy with that id to the back of that
\* queue; a queue no subscription of the topic names is left as it was.
C11_FanOut ==
    [][\A a \in TopicArns :
          (publish(a) /\ a \in DOMAIN topics) =>
              /\ resp'.status = "Ok"
              /\ resp'.val.MessageId = next_id
              /\ DOMAIN queues' = DOMAIN queues
              /\ \A p \in DOMAIN queues :
                    IF SubscribedAt(a, p) # {}
                    THEN Appended(p, Cardinality(SubscribedAt(a, p)), resp'.val.MessageId)
                    ELSE queues'[p] = queues[p]]_vars

\* C11's case: the latest request was a Publish to a topic with subscriptions
\* to two queues; both got the message, one of them behind an earlier one
C11_Witness ==
    /\ resp.status = "Ok" /\ "MessageId" \in DOMAIN resp.val
    /\ \E a \in DOMAIN topics : \E p1, p2 \in DOMAIN queues :
          /\ p1 # p2
          /\ SubscribedAt(a, p1) # {} /\ SubscribedAt(a, p2) # {}
          /\ Len(queues[p1].messages) = 2
          /\ queues[p1].messages[1].id # resp.val.MessageId
          /\ queues[p1].messages[2].id = resp.val.MessageId
          /\ Len(queues[p2].messages) = 1
          /\ queues[p2].messages[1].id = resp.val.MessageId

\* C12: fan-out partial failure is swallowed.  A Publish to an existing topic
\* with a subscription whose endpoint names no queue answers Ok with a message
\* id, creates no queue, and every existing queue a subscription of the topic
\* names still gets the message.
C12_MissingQueueSkipped ==
    [][\A a \in TopicArns :
          (publish(a) /\ a \in DOMAIN topics
             /\ \E i \in 1..Len(topics[a].subscriptions) :
                   get_queue_path(topics[a].subscriptions[i].endpoint) \notin DOMAIN queues)
          => /\ resp'.status = "Ok"
             /\ "MessageId" \in DOMAIN resp'.val
             /\ DOMAIN queues' = DOMAIN queues
             /\ \A p \in DOMAIN queues :
                   SubscribedAt(a, p) # {} =>
                       /\ Len(queues'[p].messages) > Len(queues[p].messages)
                       /\ queues'[p].messages[Len(queues'[p].messages)].id
                             = resp'.val.MessageId]_vars

\* C12's case: the latest request was a Publish to a topic whose first
\* subscription names a queue that does not exist and whose second names one
\* that does, and the existing queue got the message
C12_Witness ==
    /\ resp.status = "Ok" /\ "MessageId" \in DOMAIN resp.val
    /\ \E a \in DOMAIN topics : \E p \in DOMAIN queues :
          /\ Len(topics[a].subscriptions) = 2
          /\ get_queue_path(topics[a].subscriptions[1].endpoint) \notin DOMAIN queues
          /\ get_queue_path(topics[a].subscriptions[2].endpoint) = p
          /\ queues[p].messages # <<>>
          /\ queues[p].messages[Len(queues[p].messages)].id = resp.val.MessageId

\* C13: CreateQueue does not overwrite.  CreateQueue with the name of an
\* existing queue answers with the queue's URL and leaves every queue
\* (attributes, pending messages, waiter slot) as it was, whatever attributes it
\* supplies; CreateTopic with the name of an existing topic leaves every topic
\* (attributes, subscriptions) as it was.
C13_CreateKeepsExisting ==
    [][/\ \A n \in QueueNames : \A at \in QueueAttributeInputs :
             (create_queue(n, at) /\ get_queue_path(get_queue_url(n)) \in DOMAIN queues)
                => /\ queues' = queues
                   /\ resp'.status = "Ok"
                   /\ resp'.val.QueueUrl = get_queue_url(n)
       /\ \A n \in TopicNames : \A at \in TopicAttributeInputs :
             (create_topic(n, at) /\ get_topic_arn(n) \in DOMAIN topics)
                => /\ topics' = topics
                   /\ resp'.status = "Ok"
                   /\ resp'.val.TopicArn = get_topic_arn(n)]_vars

\* C13's case: the latest request was a CreateQueue naming a queue that already
\* held a message or a waiter
C13_Witness ==
    /\ resp.status = "Ok" /\ "QueueUrl" \in DOMAIN resp.val
    /\ get_queue_path(resp.val.QueueUrl) \in DOMAIN queues
    /\ LET q == queues[get_queue_path(resp.val.QueueUrl)]
       IN q.messages # <<>> \/ q.bell # None

QueueMissing(u) == get_queue_path(u) \notin DOMAIN queues

\* C14: NotFound leaves state unchanged.  SendMessage, ReceiveMessage (at each
\* of its checks of the queue), GetQueueAttributes and SetQueueAttributes on a
\* queue identifier that resolves to no queue fail with QueueNotFound; Publish,
\* Subscribe, GetTopicAttributes, SetTopicAttributes and
\* ListSubscriptionsByTopic on an absent topic fail with TopicNotFound; and
\* each leaves queues, topics and the in-flight table as they were.
C14_NotFoundNoEffect ==
    [][/\ \A u \in QueueUrls :
             (QueueMissing(u)
                /\ \/ send_message(u)
                   \/ get_queue_attributes(u)
                   \/ \E at \in QueueAttributeInputs : set_queue_attributes(u, at))
             => (resp'.status = "QueueNotFound" /\ UNCHANGED registry)
       /\ \A r \in Receivers : \A u \in QueueUrls :
             (QueueMissing(u)
                /\ \/ \E i \in AdminReceiveInputs : ReceiveBegin(r, u, i[1], i[2], None)
                   \/ (ReceiveWake(r) /\ rcv[r].queue_url = u))
             => /\ rcv'[r].pc = "done" /\ rcv'[r].status = "QueueNotFound"
                /\ rcv'[r].messages = <<>>
                /\ UNCHANGED registry
       /\ \A a \in TopicArns :
             (a \notin DOMAIN topics
                /\ \/ publish(a)
                   \/ get_topic_attributes(a)
                   \/ list_subscriptions_by_topic(a)
                   \/ \E at \in TopicAttributeInputs : set_topic_attributes(a, at)
                   \/ \E u \in QueueUrls : subscribe(a, u))
             => (resp'.status = "TopicNotFound" /\ UNCHANGED registry)]_vars

\* C14's case: with a queue and a message in the registry, a request on an
\* absent topic was refused after a receive on an absent queue was
C14_Witness ==
    /\ resp.status = "TopicNotFound"
    /\ \E r \in Receivers : rcv[r].status = "QueueNotFound"
    /\ \E p \in DOMAIN queues : queues[p].messages # <<>>

\* the effective count of a request's MaxNumberOfMessages
EffectiveCount(m) ==
    IF m = Some("2") THEN 2 ELSE IF m = Some("10") THEN 10 ELSE 1

Min(a, b) == IF a <= b THEN a ELSE b

\* the check took the first Min(c, k) of the k pending messages of the queue
\* at p for call r, and left the rest
TookFirst(r, p, c) ==
    LET old == queues[p].messages
        n == Min(c, Len(old))
    IN /\ cids(rcv'[r].messages) = cids(SubSeq(old, 1, n))
       /\ queues'[p].messages = SubSeq(old, n + 1, Len(old))
       /\ Len(rcv'[r].messages) <= 10

\* C15: receive batch size.  With c the requested MaxNumberOfMessages when it
\* is a number in 1..10 and 1 otherwise, a ReceiveMessage that finds k >= 1
\* pending messages takes the first min(c, k) of them in order and leaves the
\* others pending in order, at its first check and at its check after a wake.
C15_BatchSize ==
    [][\A r \in Receivers :
          /\ (rcv[r].pc = "idle" /\ rcv'[r].pc # "idle") =>
                \A u \in QueueUrls : \A i \in BatchReceiveInputs :
                    ReceiveBegin(r, u, i[1], i[2], None) =>
                       /\ rcv'[r].max_count = EffectiveCount(i[1])
                       /\ (~QueueMissing(u) /\ queues[get_queue_path(u)].messages # <<>>)
                             => TookFirst(r, get_queue_path(u), EffectiveCount(i[1]))
          /\ (/\ rcv[r].pc = "parked" /\ rcv'[r].pc # "parked"
              /\ ReceiveWake(r)
              /\ ~QueueMissing(rcv[r].queue_url)
              /\ queues[get_queue_path(rcv[r].queue_url)].messages # <<>>)
                => TookFirst(r, get_queue_path(rcv[r].queue_url), rcv[r].max_count)]_vars

\* C15's case: a receive took the first two of three pending messages and left
\* the third
C15_Witness ==
    \E r \in Receivers : \E p \in DOMAIN queues :
        /\ get_queue_path(rcv[r].queue_url) = p
        /\ rcv[r].pc = "record"
        /\ Len(rcv[r].messages) = 2
        /\ Len(queues[p].messages) = 1

\* the timeout a ChangeMessageVisibility request asks for
RequestedTimeout(v) == IF v = Some("0") THEN 0 ELSE 2

\* C16: ChangeMessageVisibility frame.  ChangeMessageVisibility(h, t) answers
\* Ok; when h is in flight it sets the record's expires to now + t and changes
\* nothing else of the record, no other record, no queue and no topic; when h
\* is not in flight it changes nothing and creates no record.
C16_ChangeVisibilityFrame ==
    [][\A h \in HandleInputs : \A v \in VisibilityTimeoutInputs \ {None} :
          change_message_visibility(h, v) =>
              /\ resp'.status = "Ok"
              /\ UNCHANGED <<queues, topics>>
              /\ DOMAIN received_messages' = DOMAIN received_messages
              /\ \A k \in DOMAIN received_messages :
                    IF k = h
                    THEN /\ received_messages'[k].expires = now + RequestedTimeout(v)
                         /\ received_messages'[k].message = received_messages[k].message
                         /\ received_messages'[k].queue_path
                               = received_messages[k].queue_path
                    ELSE received_messages'[k] = received_messages[k]]_vars

\* C16's case: of two deliveries in flight, one had its timeout changed to 2
\* seconds from now and the other kept its expiry
C16_Witness ==
    /\ resp.status = "Ok"
    /\ \E h1, h2 \in DOMAIN received_messages :
          /\ h1 # h2
          /\ received_messages[h1].expires = now + 2
          /\ received_messages[h2].expires > now + 2

\* C17: topic deletion cascades.  Every stored subscription belongs to the
\* existing topic that stores it, so that after DeleteTopic(arn) the topic is
\* gone and ListSubscriptions lists no subscription with that topic arn;
\* Publish to an absent arn answers TopicNotFound and leaves every queue as it
\* was; a topic created under a name that is not registered starts with no
\* subscription.
C17_DeleteTopicCascades ==
    [][/\ \A a \in DOMAIN topics' : \A i \in 1..Len(topics'[a].subscriptions) :
             topics'[a].subscriptions[i].topic_arn = a
       /\ \A a \in TopicArns :
             /\ delete_topic(a) => a \notin DOMAIN topics'
             /\ (publish(a) /\ a \notin DOMAIN topics)
                   => (resp'.status = "TopicNotFound" /\ UNCHANGED queues)
       /\ list_subscriptions =>
             \A sub \in resp'.val.Subscriptions : sub[1] \in DOMAIN topics
       /\ \A n \in TopicNames :
             (create_topic(n, NoAttributes) /\ get_topic_arn(n) \notin DOMAIN topics)
                => topics'[get_topic_arn(n)].subscriptions = <<>>]_vars

\* C17's case: a topic that had its one subscription was deleted, and a request
\* naming it was refused afterwards
C17_Witness ==
    /\ resp.status = "TopicNotFound"
    /\ DOMAIN topics = {}
    /\ next_id = 2
    /\ DOMAIN queues # {}

\* call r has returned the i-th message of its result with a receive count of
\* at least 1 and a handle that is, or was until it was deleted, the key of an
\* in-flight record wrapping that message and its queue
Tracked(r, i) ==
    LET m == rcv[r].messages[i]
    IN /\ m.receive_count >= 1
       /\ \/ m.receipt_handle \in deleted
          \/ /\ m.receipt_handle \in DOMAIN received_messages
             /\ received_messages[m.receipt_handle].message.cid = m.cid
             /\ received_messages[m.receipt_handle].queue_path
                   = get_queue_path(rcv[r].queue_url)

\* C18: every delivered message is tracked.  Every message in the result of a
\* ReceiveMessage that has returned has a receive count of at least 1 and a
\* receipt handle under which it was recorded in the in-flight table.
C18_DeliveredTracked ==
    \A r \in Receivers :
        (rcv[r].pc = "done" /\ rcv[r].status = "Ok")
            => \A i \in 1..Len(rcv[r].messages) : Tracked(r, i)

\* C18's case: a receive returned a message whose queue was deleted and created
\* again between the pop and the record step
C18_Witness ==
    \E r \in Receivers :
        /\ rcv[r].pc = "done" /\ rcv[r].status = "Ok"
        /\ rcv[r].messages # <<>>
        /\ rcv[r].deleted_since
        /\ \A i \in 1..Len(rcv[r].messages) : Tracked(r, i)

\* call r parked and returned because its timer fired
TimedOut(r) ==
    rcv[r].pc = "done" /\ rcv[r].parked /\ rcv[r].rx_state = "open"

\* C19: waiter slot released on timeout.  Once a parked ReceiveMessage has
\* returned because its wait timed out, no queue's waiter slot holds the waiter
\* of that call.
C19_SlotReleased ==
    \A r \in Receivers : \A p \in DOMAIN queues :
        TimedOut(r) => queues[p].bell # Some(<<r, 1>>)

\* C19's case: a parked receive timed out on a queue that exists and returned
\* an empty result
C19_Witness ==
    \E r \in Receivers :
        /\ TimedOut(r)
        /\ rcv[r].status = "Ok" /\ rcv[r].messages = <<>>
        /\ get_queue_path(rcv[r].queue_url) \in DOMAIN queues

\* C20: single wake per armed waiter.  A send to an existing queue appends the
\* message behind the pending ones and leaves the waiter slot empty; the only
\* receiver it can resolve is the waiting one whose Sender was in the slot,
\* and with the slot empty it resolves none; a receiver that was signalled is
\* in no slot, so no later send signals it again.
C20_SingleWake ==
    [][/\ \A u \in QueueUrls :
             (send_message(u) /\ ~QueueMissing(u)) =>
                LET p == get_queue_path(u)
                IN /\ Appended(p, 1, next_id)
                   /\ queues'[p].bell = None
                   /\ \A r \in Receivers :
                         rcv'[r].rx_state # rcv[r].rx_state =>
                            /\ queues[p].bell = Some(<<r, 1>>)
                            /\ rcv[r].rx_state = "open"
                            /\ rcv'[r].rx_state = "sent"
       /\ \A r \in Receivers : \A p \in DOMAIN queues' :
             rcv'[r].rx_state = "sent" => queues'[p].bell # Some(<<r, 1>>)]_vars

\* C20's case: two messages were sent to a queue a receive was parked on; the
\* receive was signalled by the first, both are pending, the slot is empty
C20_Witness ==
    \E r \in Receivers : \E p \in DOMAIN queues :
        /\ rcv[r].pc = "parked" /\ rcv[r].rx_state = "sent"
        /\ get_queue_path(rcv[r].queue_url) = p
        /\ Len(queues[p].messages) = 2
        /\ queues[p].bell = None

\* the message call r was signalled for has been popped by another receive
\* call, and the queue r is parked on exists and is empty
DrainedByOther(r) ==
    LET p == get_queue_path(rcv[r].queue_url)
    IN /\ rcv[r].sent # None
       /\ \E r2 \in Receivers \ {r} : Returned(r2, rcv[r].sent[1])
       /\ p \in DOMAIN queues
       /\ ~has_message(queues[p])

\* C21: re-validation after wake.  When a parked receive is woken by a send
\* and another ReceiveMessage drains the queue before the woken receive takes
\* the lock again, the woken receive returns an empty result that is not an
\* error, records no in-flight entry and returns no message that the other
\* receiver obtained.
C21_RevalidateAfterWake ==
    [][\A r \in Receivers :
          (/\ rcv[r].pc = "parked" /\ rcv[r].rx_state = "sent"
           /\ DrainedByOther(r)
           /\ ReceiveWake(r))
              => /\ rcv'[r].pc = "done" /\ rcv'[r].status = "Ok"
                 /\ rcv'[r].messages = <<>>
                 /\ received_messages' = received_messages
                 /\ pop_log' = pop_log
                 /\ \A r2 \in Receivers \ {r} : \A i \in 1..Len(rcv[r2].messages) :
                       ~Returned(r, rcv[r2].messages[i].cid)']_vars

\* C21's case: a receive woken by a send found the queue drained by another
\* receive, which has the message, and returned an empty result
C21_Witness ==
    \E r \in Receivers :
        /\ rcv[r].pc = "done" /\ rcv[r].parked /\ rcv[r].rx_state = "sent"
        /\ rcv[r].status = "Ok" /\ rcv[r].messages = <<>> /\ ~rcv[r].recorded
        /\ ~rcv[r].deleted_since
        /\ \E r2 \in Receivers \ {r} :
              Returned(r2, rcv[r].sent[1]) /\ rcv[r2].recorded

\* the receive call a new ReceiveMessage request would run as
NextCall(r2) ==
    rcv[r2].pc = "idle" /\ \A r3 \in Receivers : r3 < r2 => rcv[r3].pc # "idle"

\* while call r stays parked, every other operation can take the lock and
\* complete: a send or a publish (appending to the queue r is parked on, when
\* it exists), operations on any queue and topic, another ReceiveMessage
OthersProceed(r) ==
    LET p == get_queue_path(rcv[r].queue_url)
    IN /\ \A u \in QueueUrls :
             ENABLED (/\ send_message(u)
                      /\ rcv'[r].pc = "parked"
                      /\ (get_queue_path(u) = p /\ p \in DOMAIN queues)
                            => /\ resp'.status = "Ok"
                               /\ Len(queues'[p].messages) = Len(queues[p].messages) + 1)
       /\ \A a \in TopicArns :
             ENABLED (/\ publish(a)
                      /\ rcv'[r].pc = "parked"
                      /\ (a \in DOMAIN topics /\ p \in DOMAIN queues)
                            => Len(queues'[p].messages) =
                                  Len(queues[p].messages) + Cardinality(SubscribedAt(a, p)))
       /\ \A n \in QueueNames :
             ENABLED (create_queue(n, NoAttributes) /\ rcv'[r].pc = "parked")
       /\ \A u \in QueueUrls :
             ENABLED (delete_queue(u) /\ rcv'[r].pc = "parked")
       /\ \A n \in TopicNames :
             ENABLED (create_topic(n, NoAttributes) /\ rcv'[r].pc = "parked")
       /\ \A a \in TopicArns, u \in QueueUrls :
             ENABLED (subscribe(a, u) /\ rcv'[r].pc = "parked")
       /\ \A h \in HandleInputs :
             ENABLED (delete_message(h) /\ rcv'[r].pc = "parked")
       /\ \A r2 \in Receivers : \A u \in QueueUrls : \A i \in LongPollReceiveInputs :
             NextCall(r2) =>
                ENABLED (/\ ReceiveBegin(r2, u, i[1], i[2], None)
                         /\ rcv'[r].pc = "parked"
                         /\ rcv'[r2].pc # "idle")

\* a call in progress can take its next step: none waits for a lock that is
\* never released
CanStep(r) ==
    /\ rcv[r].pc = "record" => ENABLED ReceiveRecord(r)
    /\ (rcv[r].pc = "parked" /\ rcv[r].rx_state # "open") => ENABLED ReceiveWake(r)
    /\ (rcv[r].pc = "parked" /\ rcv[r].rx_state = "open") =>
          IF now >= rcv[r].deadline THEN ENABLED ReceiveTimeout(r)
          ELSE events < MaxEvents => ENABLED Tick

\* C22: parking does not hold the lock.  In every state where a receive is
\* parked, any other operation (SendMessage or Publish to the same queue,
\* operations on other queues and topics, another ReceiveMessage) can take the
\* lock and complete before the parked receive returns; no state is a
\* deadlock: every call in progress can take its next step.
C22_ParkedHoldsNoLock ==
    \A r \in Receivers :
        /\ (rcv[r].pc = "parked" /\ events < MaxEvents) => OthersProceed(r)
        /\ CanStep(r)

\* C22's case: while a receive is still parked, a send to its queue and
\* another receive on its queue have both completed
C22_Witness ==
    \E r \in Receivers : \E r2 \in Receivers \ {r} :
        /\ rcv[r].pc = "parked" /\ rcv[r].sent # None /\ rcv[r].other_since
        /\ rcv[r2].pc = "done" /\ rcv[r2].queue_url = rcv[r].queue_url
        /\ Returned(r2, rcv[r].sent[1])

\* C23: non-waiting receive has no side effect.  A ReceiveMessage without
\* WaitTimeSeconds (or with 0) on an existing empty queue returns an empty
\* result and leaves the registry as it was: the queue's waiter slot is
\* neither set nor replaced, and a receive parked on the queue keeps its
\* registration.
C23_NonWaitingNoEffect ==
    [][\A r \in Receivers : \A u \in QueueUrls :
          (/\ rcv[r].pc = "idle"
           /\ ~QueueMissing(u)
           /\ ~has_message(queues[get_queue_path(u)])
           /\ ReceiveBegin(r, u, None, None, None))
              => /\ rcv'[r].pc = "done" /\ rcv'[r].status = "Ok"
                 /\ rcv'[r].messages = <<>>
                 /\ registry' = registry
                 /\ \A r2 \in Receivers \ {r} : rcv'[r2] = rcv[r2]]_vars

\* C23's case: a receive that does not wait has returned an empty result from
\* an existing empty queue, on which another receive was parked: the slot holds
\* the waiter of the call that returned, the parked call's Sender is gone
C23_Witness ==
    \E r \in Receivers : \E r2 \in Receivers \ {r} :
        /\ rcv[r].pc = "done" /\ rcv[r].status = "Ok" /\ rcv[r].messages = <<>>
        /\ rcv[r].wait_time_seconds = 0 /\ ~rcv[r].parked
        /\ rcv[r2].pc = "parked" /\ rcv[r2].other_since /\ ~rcv[r2].deleted_since
        /\ rcv[r2].queue_url = rcv[r].queue_url
        /\ rcv[r2].sent = None /\ rcv[r2].rx_state = "closed"
        /\ ~QueueMissing(rcv[r].queue_url)
        /\ queues[get_queue_path(rcv[r].queue_url)].bell = Some(<<r, 1>>)

\* call r found its queue at its first check: it popped messages, parked, or
\* returned the empty result of a receive that does not wait
StartedOnQueue(r) ==
    \/ rcv[r].pc \in {"parked", "record"}
    \/ rcv[r].pc = "done" /\ (rcv[r].parked \/ rcv[r].status = "Ok")

\* C24: receive never ends in an error once started on an existing queue.  A
\* ReceiveMessage whose queue existed at its first check ends with a result
\* (messages, or empty) and never with QueueNotFound or another error, also
\* when the queue is deleted while the call is parked.
C24_NoErrorAfterStart ==
    \A r \in Receivers :
        (StartedOnQueue(r) /\ rcv[r].pc = "done") => rcv[r].status = "Ok"

\* C24's case: a receive parked on a queue, the queue was deleted, and the
\* receive has returned
C24_Witness ==
    \E r \in Receivers :
        /\ rcv[r].pc = "done" /\ rcv[r].parked /\ rcv[r].deleted_since
        /\ rcv[r].rx_state = "closed"
        /\ QueueMissing(rcv[r].queue_url)

\* C25: receive terminates.  With the lock and the timer scheduled fairly,
\* every ReceiveMessage call that has started returns, whether it popped
\* messages, parked and was woken by a send, by a deletion of its queue or by
\* another receiver, or parked until its deadline; a parked call whose
\* deadline has come leaves the wait by a step of its own, with no further
\* passing of time.
C25_ReceiveTerminates ==
    /\ \A r \in Receivers : (rcv[r].pc # "idle") ~> (rcv[r].pc = "done")
    /\ [](\A r \in Receivers :
             (rcv[r].pc = "parked" /\ now >= rcv[r].deadline)
                => ENABLED (/\ ReceiveWake(r) \/ ReceiveTimeout(r)
                            /\ rcv'[r].pc # "parked"
                            /\ now' = now))

\* C25's case: two receives parked; one returned because its timer fired, the
\* other because its queue was deleted or another call replaced its waiter
C25_Witness ==
    \E r \in Receivers : \E r2 \in Receivers \ {r} :
        /\ TimedOut(r) /\ now >= rcv[r].deadline
        /\ rcv[r2].pc = "done" /\ rcv[r2].parked /\ rcv[r2].rx_state = "closed"

\* C26: no dangling in-flight records.  The queue path of every in-flight
\* record is the key of a queue in the registry: DeleteQueue removes, with the
\* queue and its pending messages, every in-flight record of that queue.
C26_NoDanglingInFlight ==
    \A h \in DOMAIN received_messages :
        received_messages[h].queue_path \in DOMAIN queues

\* C26's case: a message of a queue was delivered and recorded as in flight,
\* and the queue has been deleted since
C26_Witness ==
    \E d \in Delivered :
        /\ rcv[d[1]].pc = "done"
        /\ msg(d).receipt_handle \in DOMAIN received_messages
        /\ QueueMissing(rcv[d[1]].queue_url)
        /\ resp = Response("Ok", NoValue)

\* the visibility timeout a request supplies: the number its VisibilityTimeout
\* parameter reads as, if it reads as one
Supplied(v) ==
    CASE v = Some("0") -> Some(0)
      [] v = Some("2") -> Some(2)
      [] OTHER -> None

\* the number the VisibilityTimeout attribute of queue q reads as; None when
\* the queue has no such attribute or it reads as no number
Configured(q) ==
    IF "VisibilityTimeout" \notin DOMAIN q.attributes THEN None
    ELSE CASE q.attributes.VisibilityTimeout = "1" -> Some(1)
           [] q.attributes.VisibilityTimeout = "30" -> Some(30)
           [] OTHER -> None

\* C27: effective visibility timeout.  The in-flight record created for a
\* delivered message has expires = (time of recording) + T, where T is the
\* VisibilityTimeout of the request when the request supplies one that parses,
\* and otherwise the VisibilityTimeout attribute of the queue as it stands when
\* the delivery is recorded; a queue created without the attribute has it set
\* to 30; the value of the request takes precedence over that of the queue.
C27_EffectiveVisibilityTimeout ==
    [][/\ \A r \in Receivers : \A u \in QueueUrls : \A v \in VisibilityRequestInputs :
             (rcv[r].pc = "idle" /\ ReceiveBegin(r, u, None, None, v))
                => rcv'[r].visibility_timeout_recv = Supplied(v)
       /\ \A r \in Receivers :
             (/\ rcv[r].pc = "record"
              /\ ~QueueMissing(rcv[r].queue_url)
              /\ ReceiveRecord(r))
                 => LET q == queues[get_queue_path(rcv[r].queue_url)]
                        T == IF rcv[r].visibility_timeout_recv # None
                             THEN rcv[r].visibility_timeout_recv
                             ELSE Configured(q)
                    IN T # None =>
                          \A i \in 1..Len(rcv'[r].messages) :
                             LET h == rcv'[r].messages[i].receipt_handle
                             IN /\ h \in DOMAIN received_messages'
                                /\ h \notin DOMAIN received_messages
                                /\ received_messages'[h].expires = now + T[1]
       /\ \A n \in QueueNames :
             (/\ QueueMissing(get_queue_url(n))
              /\ create_queue(n, NoAttributes))
                 => Configured(queues'[get_queue_path(get_queue_url(n))]) = Some(30)]_vars

\* C27's case: at a time after the start, a queue whose VisibilityTimeout is
\* set to 1 has delivered a message to a request that supplied 2, and the
\* record expires 2 from now
C27_Witness ==
    \E d \in Delivered :
        /\ now > 0
        /\ ~QueueMissing(rcv[d[1]].queue_url)
        /\ Configured(queues[get_queue_path(rcv[d[1]].queue_url)]) = Some(1)
        /\ rcv[d[1]].visibility_timeout_recv = Some(2)
        /\ msg(d).receipt_handle \in DOMAIN received_messages
        /\ received_messages[msg(d).receipt_handle].expires = now + 2

\* C28: one copy per queue per publish.  A Publish appends at most one copy
\* of the published message to any one queue, whatever subscriptions the topic
\* holds, also when the endpoints of two subscriptions differ (a queue URL and
\* a queue ARN) and resolve to the same queue.
C28_OneCopyPerQueue ==
    [][\A a \in TopicArns :
          publish(a) =>
             \A p \in DOMAIN queues :
                Len(queues'[p].messages) <= Len(queues[p].messages) + 1]_vars

\* C28's case: a topic holds a subscription by the URL and one by the ARN of
\* the same queue, and a publish to it has appended to that queue
C28_Witness ==
    \E a \in DOMAIN topics : \E p \in DOMAIN queues :
        /\ Cardinality(SubscribedAt(a, p)) = 2
        /\ \E i \in SubscribedAt(a, p) : \E j \in SubscribedAt(a, p) :
              topics[a].subscriptions[i].endpoint # topics[a].subscriptions[j].endpoint
        /\ has_message(queues[p])
        /\ "MessageId" \in DOMAIN resp.val
        /\ queues[p].messages[Len(queues[p].messages)].id = resp.val.MessageId

\* C29: every interface operation is dispatched.  The dispatcher routes each
\* operation of the interface, DeleteMessage and ChangeMessageVisibility
\* included, to its handler, and answers UnknownAction only for an action name
\* that is no operation of the interface; a DeleteMessage request for the
\* handle of a delivered message removes the in-flight record, and a
\* ChangeMessageVisibility request for it sets the record's expiry.
C29_EveryOperationDispatched ==
    [][\A f \in Forms :
          (f.Action # None /\ handle_request(f)) =>
             /\ resp'.status = "UnknownAction" <=> f.Action[1] \notin InterfaceOperations
             /\ (f.Action[1] = "DeleteMessage"
                    /\ f.ReceiptHandle \in DOMAIN received_messages)
                   => f.ReceiptHandle \notin DOMAIN received_messages'
             /\ (f.Action[1] = "ChangeMessageVisibility"
                    /\ f.ReceiptHandle \in DOMAIN received_messages)
                   => received_messages'[f.ReceiptHandle].expires = now + 2]_vars

\* C29's case: a message was delivered and the last request, answered
\* UnknownAction, left its in-flight record where it was
C29_Witness ==
    \E d \in Delivered :
        /\ msg(d).receipt_handle \in DOMAIN received_messages
        /\ resp.status = "UnknownAction"

\* C30: queue always has a visibility timeout.  After any sequence of
\* CreateQueue and SetQueueAttributes calls every queue in the registry has a
\* VisibilityTimeout attribute, and no delivery is recorded with the 600-second
\* fallback (every timeout a request or a queue supplies here is far below it,
\* as is the clock).
C30_QueueHasVisibilityTimeout ==
    /\ \A p \in DOMAIN queues : "VisibilityTimeout" \in DOMAIN queues[p].attributes
    /\ \A h \in DOMAIN received_messages :
          received_messages[h].expires < FallbackVisibilityTimeout

\* C30's case: SetQueueAttributes has been answered Ok on a queue, and a
\* receive without a visibility timeout of its own has then recorded a delivery
\* from that queue
C30_Witness ==
    \E d \in Delivered :
        /\ rcv[d[1]].visibility_timeout_recv = None
        /\ ~QueueMissing(rcv[d[1]].queue_url)
        /\ "VisibilityTimeout" \notin
              DOMAIN queues[get_queue_path(rcv[d[1]].queue_url)].attributes
        /\ msg(d).receipt_handle \in DOMAIN received_messages
        /\ received_messages[msg(d).receipt_handle].expires
              = now + FallbackVisibilityTimeout

\* Every behaviour from the server's start, and the set-ups as states of it
SpecFromStart == Start(InitEmpty) /\ [][Next]_vars
Untouched ==
    /\ received_messages = [h \in {} |-> 0]
    /\ rcv = [r \in Receivers |-> Idle]
    /\ next_cid = 1
    /\ deleted = {}
    /\ now = 0
AtInitQueue == InitQueue /\ Untouched
AtInitSubscribed == InitSubscribed /\ Untouched

\* The tasks of the calls in progress are scheduled: a call that can take its
\* next step (the lock is fair, the timer fires) takes it.  Requests and the
\* model's clock are the environment's and are not forced.
FairSpec ==
    /\ Spec
    /\ \A r \in Receivers :
          WF_vars(ReceiveWake(r)) /\ WF_vars(ReceiveTimeout(r)) /\ WF_vars(ReceiveRecord(r))

====
